---- MODULE Spec2Model ----
(***************************************************************************)
(* A model of @elements/config: the Config class of src/src/config.ts.     *)
(*                                                                         *)
(* JavaScript objects live in a heap of addressed objects so that sharing  *)
(* by reference (two Config instances over one root, the nested objects    *)
(* shared between the root and a shallow clone) is part of the state.      *)
(* The path helpers get/set/push are imported by config.ts from            *)
(* '@elements/utils'; they are modelled from sections 4.1, 4.2 and 4.4 of  *)
(* the specification.                                                      *)
(***************************************************************************)
EXTENDS Integers, Sequences, FiniteSets, TLC

VARIABLES heap, data, copy, call, nOps

vars == <<heap, data, copy, call, nOps>>

(***************************************************************************)
(* Bounds of the model.                                                    *)
(***************************************************************************)
\* number of heap addresses
MaxObj == 4
\* number of state-changing calls in one behaviour
MaxOps == 2

Addr == 1..MaxObj

(***************************************************************************)
(* JavaScript values.  A value is a pair <<tag, payload>>; the tag is the  *)
(* result of typeof, except for null.  An object value carries the heap    *)
(* address of the object, so === on objects is identity.                   *)
(***************************************************************************)
Undef == <<"undefined", 0>>
Null == <<"null", 0>>
Num(n) == <<"number", n>>
\* the empty string ''
EmptyStr == <<"string", 0>>
Bool(b) == <<"boolean", IF b THEN 1 ELSE 0>>
Fn == <<"function", 0>>
Ref(a) == <<"object", a>>

IsRef(v) == v[1] = "object"

TypeOf(v) == IF v[1] = "null" THEN "object" ELSE v[1]

\* ToBoolean: undefined, null, 0, '' and false are falsy, all else truthy
Truthy(v) ==
    CASE v[1] = "undefined" -> FALSE
      [] v[1] = "null" -> FALSE
      [] v[1] = "number" -> v[2] # 0
      [] v[1] = "string" -> v[2] # 0
      [] v[1] = "boolean" -> v[2] # 0
      [] OTHER -> TRUE

(***************************************************************************)
(* Strings are sequences of characters; a property key is a string.        *)
(***************************************************************************)
Dot == "."
Digits == <<"0", "1", "2", "3", "4", "5", "6", "7", "8", "9">>

DefaultKey == <<"d", "e", "f", "a", "u", "l", "t">>

NoProps == [k \in {} |-> Undef]

FreeObj == [kind |-> "free", props |-> NoProps, elems |-> <<>>, prim |-> Undef]
\* {}
EmptyObject == [kind |-> "object", props |-> NoProps, elems |-> <<>>, prim |-> Undef]
\* []
EmptyArray == [kind |-> "array", props |-> NoProps, elems |-> <<>>, prim |-> Undef]

DigitVal(c) == (CHOOSE i \in 1..10 : Digits[i] = c) - 1

IsIndex(key) ==
    /\ Len(key) > 0
    /\ \A i \in 1..Len(key) : \E j \in 1..10 : Digits[j] = key[i]
    /\ (Len(key) > 1 => key[1] # "0")

RECURSIVE IndexOf(_)
IndexOf(key) ==
    IF key = <<>> THEN 0
    ELSE 10 * IndexOf(SubSeq(key, 1, Len(key) - 1)) + DigitVal(key[Len(key)])

\* obj[key]
ReadProp(h, a, key) ==
    LET o == h[a] IN
    IF o.kind = "array" /\ IsIndex(key)
    THEN IF IndexOf(key) < Len(o.elems) THEN o.elems[IndexOf(key) + 1] ELSE Undef
    ELSE IF key \in DOMAIN o.props THEN o.props[key] ELSE Undef

\* obj[key] = v
WriteProp(h, a, key, v) ==
    LET o == h[a] IN
    IF o.kind = "array" /\ IsIndex(key)
    THEN LET i == IndexOf(key)
             n == IF i < Len(o.elems) THEN Len(o.elems) ELSE i + 1
         IN [h EXCEPT ![a].elems =
                [j \in 1..n |-> IF j = i + 1 THEN v
                                ELSE IF j <= Len(o.elems) THEN o.elems[j] ELSE Undef]]
    ELSE [h EXCEPT ![a].props =
                [k \in (DOMAIN o.props) \cup {key} |-> IF k = key THEN v ELSE o.props[k]]]

\* the own enumerable keys of an object
RECURSIVE IndexKey(_)
IndexKey(i) == IF i < 10 THEN <<Digits[i + 1]>> ELSE IndexKey(i \div 10) \o <<Digits[(i % 10) + 1]>>

OwnKeys(h, a) ==
    (DOMAIN h[a].props) \cup {IndexKey(i - 1) : i \in 1..Len(h[a].elems)}

(***************************************************************************)
(* The heap: allocation and reachability.  An object no reference leads to *)
(* is collected, so its address can be used again.                         *)
(***************************************************************************)
\* the lowest free address, 0 when the heap is full
FreeAddr(h) ==
    IF \E a \in Addr : h[a].kind = "free"
    THEN CHOOSE a \in Addr : h[a].kind = "free" /\ \A b \in Addr : h[b].kind = "free" => a <= b
    ELSE 0

RefsOf(o) ==
    {o.props[k][2] : k \in {x \in DOMAIN o.props : IsRef(o.props[x])}}
        \cup {o.elems[i][2] : i \in {j \in 1..Len(o.elems) : IsRef(o.elems[j])}}

RECURSIVE Reach(_, _, _)
Reach(h, seen, n) ==
    IF n = 0 \/ \A a \in seen : RefsOf(h[a]) \subseteq seen THEN seen
    ELSE Reach(h, seen \cup UNION {RefsOf(h[a]) : a \in seen}, n - 1)

Collect(h, roots) ==
    LET live == Reach(h, roots, MaxObj) IN
    [a \in Addr |-> IF a \in live THEN h[a] ELSE FreeObj]

(***************************************************************************)
(* PathResolver (specification 4.1): a path is a dotted string or an       *)
(* ordered collection of strings; a collection is joined with '.', and the *)
(* string is split on '.' into segments.                                   *)
(***************************************************************************)
StringPath(str) == [kind |-> "string", parts |-> <<str>>]
IterablePath(strs) == [kind |-> "iterable", parts |-> strs]

RECURSIVE Join(_)
Join(parts) ==
    IF Len(parts) = 0 THEN <<>>
    ELSE IF Len(parts) = 1 THEN parts[1]
    ELSE parts[1] \o <<Dot>> \o Join(Tail(parts))

RECURSIVE SplitFrom(_, _, _)
SplitFrom(str, i, cur) ==
    IF i > Len(str) THEN <<cur>>
    ELSE IF str[i] = Dot THEN <<cur>> \o SplitFrom(str, i + 1, <<>>)
    ELSE SplitFrom(str, i + 1, Append(cur, str[i]))

Split(str) == SplitFrom(str, 1, <<>>)

Resolve(path) == Split(Join(path.parts))

(***************************************************************************)
(* TreeAccessor (specification 4.2 and 4.4): get, set and push of          *)
(* '@elements/utils'.                                                      *)
(***************************************************************************)
RECURSIVE Walk(_, _, _)
Walk(h, cur, segs) ==
    IF segs = <<>> THEN cur
    ELSE IF ~IsRef(cur) THEN Undef
    ELSE Walk(h, ReadProp(h, cur[2], Head(segs)), Tail(segs))

\* get(obj, path, defaultValue)
UtilsGet(h, root, path, defaultValue) ==
    LET v == Walk(h, root, Resolve(path)) IN
    IF v = Undef THEN defaultValue ELSE v

\* What set does with an intermediate node that exists and is a scalar is
\* left open: it is overwritten with a fresh mapping, or the call fails.
ScalarPolicies == {"overwrite", "fail"}

RECURSIVE SetAt(_, _, _, _, _)
SetAt(h, a, segs, value, policy) ==
    IF Len(segs) = 1 THEN [h |-> WriteProp(h, a, segs[1], value), err |-> "none"]
    ELSE LET child == ReadProp(h, a, Head(segs)) IN
         IF IsRef(child) THEN SetAt(h, child[2], Tail(segs), value, policy)
         ELSE IF child # Undef /\ policy = "fail" THEN [h |-> h, err |-> "TypeError"]
         ELSE LET n == FreeAddr(h) IN
              IF n = 0 THEN [h |-> h, err |-> "oom"]
              ELSE SetAt(WriteProp([h EXCEPT ![n] = EmptyObject], a, Head(segs), Ref(n)),
                         n, Tail(segs), value, policy)

\* set(obj, path, value): the outcomes the open point allows
UtilsSet(h, root, path, value) ==
    IF ~IsRef(root) THEN {[h |-> h, err |-> "TypeError"]}
    ELSE {SetAt(h, root[2], Resolve(path), value, policy) : policy \in ScalarPolicies}

\* push(obj, path, value)
UtilsPush(h, root, path, value) ==
    LET existing == UtilsGet(h, root, path, Undef) IN
    IF existing = Undef
    THEN LET n == FreeAddr(h) IN
         IF n = 0 THEN {[h |-> h, ret |-> Undef, err |-> "oom"]}
         ELSE {[h |-> o.h, ret |-> value, err |-> o.err] :
                 o \in UtilsSet([h EXCEPT ![n] = [EmptyArray EXCEPT !.elems = <<value>>]],
                                root, path, Ref(n))}
    ELSE IF IsRef(existing) /\ h[existing[2]].kind = "array"
    THEN {[h |-> [h EXCEPT ![existing[2]].elems = Append(@, value)],
           ret |-> value, err |-> "none"]}
    ELSE {[h |-> h, ret |-> Undef, err |-> "NotAppendable"]}

(***************************************************************************)
(* Object.assign(target, source), as assign and toObject use it.           *)
(***************************************************************************)
RECURSIVE WriteProps(_, _, _, _)
WriteProps(h, a, src, keys) ==
    IF keys = {} THEN h
    ELSE LET k == CHOOSE x \in keys : TRUE IN
         WriteProps(WriteProp(h, a, k, src[k]), a, src, keys \ {k})

\* the own enumerable properties Object.assign copies from a source value
SourceProps(h, src) ==
    IF src.t = "lit" THEN src.props
    ELSE IF IsRef(src.v) THEN [k \in OwnKeys(h, src.v[2]) |-> ReadProp(h, src.v[2], k)]
    ELSE NoProps

\* Object.assign(target, source): null and undefined targets are a TypeError,
\* any other primitive target is boxed into a fresh wrapper object
ObjectAssign(h, target, src) ==
    LET sp == SourceProps(h, src) IN
    IF target = Undef \/ target = Null THEN [h |-> h, ret |-> Undef, err |-> "TypeError"]
    ELSE IF IsRef(target)
    THEN [h |-> WriteProps(h, target[2], sp, DOMAIN sp), ret |-> target, err |-> "none"]
    ELSE LET n == FreeAddr(h) IN
         IF n = 0 THEN [h |-> h, ret |-> Undef, err |-> "oom"]
         ELSE [h |-> WriteProps([h EXCEPT ![n] = [EmptyObject EXCEPT !.kind = "boxed",
                                                                     !.prim = target]],
                                n, sp, DOMAIN sp),
               ret |-> Ref(n), err |-> "none"]

(***************************************************************************)
(* The methods of Config.  Each takes the heap and the value of            *)
(* this._data and yields the outcomes of the call: the heap afterwards,    *)
(* the value returned and the error thrown ("none" when it returns).       *)
(***************************************************************************)
Stores == {"A", "B"}

\* the Config instance itself as a value (assign returns this)
ThisOf(s) == <<"config", IF s = "A" THEN 1 ELSE 2>>

\* get that drops its default argument
ConfigGet_NoDefault(h, root, path, defaultValue) ==
    [h |-> h, ret |-> UtilsGet(h, root, path, Undef), err |-> "none"]

\* get(path, defaultValue)
ConfigGet(h, root, path, defaultValue) ==
    [h |-> h, ret |-> UtilsGet(h, root, path, defaultValue), err |-> "none"]

\* getOrThrow that tests the default against undefined instead of counting arguments
ConfigGetOrThrow_ByValue(h, root, path, nargs, defaultValue) ==
    LET result == ConfigGet(h, root, path, defaultValue).ret IN
    IF TypeOf(result) = "undefined" /\ defaultValue = Undef
    THEN [h |-> h, ret |-> Undef, err |-> "MissingRequiredValue"]
    ELSE [h |-> h, ret |-> result, err |-> "none"]

\* getOrThrow(path, defaultValue) called with nargs arguments
ConfigGetOrThrow(h, root, path, nargs, defaultValue) ==
    LET result == ConfigGet(h, root, path, defaultValue).ret IN
    IF TypeOf(result) = "undefined" /\ nargs = 1
    THEN [h |-> h, ret |-> Undef, err |-> "MissingRequiredValue"]
    ELSE [h |-> h, ret |-> result, err |-> "none"]

\* push that returns the sequence instead of the value appended
ConfigPush_ReturnsArray(h, root, path, value) ==
    {[o EXCEPT !.ret = IF o.err = "none" THEN UtilsGet(o.h, root, path, Undef) ELSE Undef] :
        o \in UtilsPush(h, root, path, value)}

\* push(path, value)
ConfigPush(h, root, path, value) == UtilsPush(h, root, path, value)

\* has that tests for a defined value instead of a truthy one
ConfigHas_Defined(h, root, path) ==
    [h |-> h, ret |-> Bool(UtilsGet(h, root, path, Undef) # Undef), err |-> "none"]

\* has(path)
ConfigHas(h, root, path) ==
    [h |-> h, ret |-> Bool(Truthy(UtilsGet(h, root, path, Undef))), err |-> "none"]

\* set that returns the value without writing it
ConfigSet_NoWrite(h, root, path, value) ==
    {[h |-> h, ret |-> value, err |-> "none"]}

\* set(path, value)
ConfigSet(h, root, path, value) ==
    {[h |-> o.h, ret |-> IF o.err = "none" THEN value ELSE Undef, err |-> o.err] :
        o \in UtilsSet(h, root, path, value)}

\* the callbacks update is called with
Callbacks == {"negate", "one"}

ApplyCallback(cb, v) == IF cb = "negate" THEN Bool(~Truthy(v)) ELSE Num(1)

\* update(path, callback)
ConfigUpdate(h, root, path, cb) ==
    LET existing == UtilsGet(h, root, path, Undef) IN
    ConfigSet(h, root, path, ApplyCallback(cb, existing))

\* setIfNotDefined that tests for a falsy value instead of an undefined one
ConfigSetIfNotDefined_Falsy(h, root, path, value) ==
    LET existing == UtilsGet(h, root, path, Undef) IN
    IF ~Truthy(existing)
    THEN {[h |-> o.h, ret |-> IF o.err = "none" THEN value ELSE Undef, err |-> o.err] :
            o \in UtilsSet(h, root, path, value)}
    ELSE {[h |-> h, ret |-> existing, err |-> "none"]}

\* setIfNotDefined(path, value)
ConfigSetIfNotDefined(h, root, path, value) ==
    LET existing == UtilsGet(h, root, path, Undef) IN
    IF TypeOf(existing) = "undefined"
    THEN {[h |-> o.h, ret |-> IF o.err = "none" THEN value ELSE Undef, err |-> o.err] :
            o \in UtilsSet(h, root, path, value)}
    ELSE {[h |-> h, ret |-> existing, err |-> "none"]}

\* toObject that returns the root itself
ConfigToObject_NoCopy(h, root) == [h |-> h, ret |-> root, err |-> "none"]

\* toObject(): Object.assign({}, this._data)
ConfigToObject(h, root) ==
    LET n == FreeAddr(h) IN
    IF n = 0 THEN [h |-> h, ret |-> Undef, err |-> "oom"]
    ELSE ObjectAssign([h EXCEPT ![n] = EmptyObject], Ref(n), [t |-> "value", v |-> root])

(***************************************************************************)
(* assign(other, path).  The argument `other` is a primitive, a plain      *)
(* object literal of primitive values, a module namespace whose default    *)
(* export is such a literal or a Config, or a Config.                      *)
(***************************************************************************)
NoPath == [kind |-> "none", parts |-> <<>>]

\* if (path): the path is neither undefined nor ''
HasPath(path) == path.kind # "none" /\ Join(path.parts) # <<>>

\* typeof other
TypeOfOther(other) == IF other.t = "prim" THEN TypeOf(other.v) ELSE "object"

\* if (other.default) other = other.default
UnwrapDefault(other) ==
    CASE other.t = "lit" ->
            IF DefaultKey \in DOMAIN other.props /\ Truthy(other.props[DefaultKey])
            THEN [t |-> "value", v |-> other.props[DefaultKey], props |-> NoProps, store |-> ""]
            ELSE other
      [] other.t = "moduleLit" -> [other EXCEPT !.t = "lit"]
      [] other.t = "moduleConfig" -> [other EXCEPT !.t = "config"]
      [] OTHER -> other

\* if (other instanceof Config) other = other['_data']
UnwrapConfig(d, other) ==
    IF other.t = "config"
    THEN [t |-> "value", v |-> Ref(d[other.store]), props |-> NoProps, store |-> ""]
    ELSE other

\* the merge at the path without the write back of the merged mapping
AssignAtPath_Detached(h, root, path, src) ==
    LET n == FreeAddr(h) IN
    IF n = 0 THEN {[h |-> h, err |-> "oom"]}
    ELSE {[h |-> o.h, err |-> o.err] :
            o \in {ObjectAssign([h EXCEPT ![n] = EmptyObject], Ref(n), src)}}

\* if (path) { existing = setIfNotDefined(path, {}); set(path, Object.assign(existing, other)) }
AssignAtPath(h, root, path, src) ==
    LET need == TypeOf(UtilsGet(h, root, path, Undef)) = "undefined"
        n == FreeAddr(h)
        h0 == IF need /\ n # 0 THEN [h EXCEPT ![n] = EmptyObject] ELSE h
    IN
    IF need /\ n = 0 THEN {[h |-> h, err |-> "oom"]}
    ELSE UNION {
            IF o1.err # "none" THEN {[h |-> h, err |-> o1.err]}
            ELSE UNION {
                    IF o2.err # "none" THEN {[h |-> o1.h, err |-> o2.err]}
                    ELSE {[h |-> o3.h, err |-> o3.err] :
                            o3 \in ConfigSet(o2.h, root, path, o2.ret)}
                    : o2 \in {ObjectAssign(o1.h, o1.ret, src)}}
            : o1 \in ConfigSetIfNotDefined(h0, root, path, Ref(n))}

\* assign that merges into a fresh object and makes it the root
AssignToRoot_Replace(h, d, s, src) ==
    LET n == FreeAddr(h) IN
    IF n = 0 THEN {[h |-> h, d |-> d, ret |-> Undef, err |-> "oom"]}
    ELSE {[h |-> ObjectAssign(o.h, Ref(n), src).h, d |-> [d EXCEPT ![s] = n],
           ret |-> ThisOf(s), err |-> "none"]
          : o \in {ObjectAssign([h EXCEPT ![n] = EmptyObject], Ref(n),
                                [t |-> "value", v |-> Ref(d[s])])}}

\* this._data = Object.assign(this._data, other); return this
AssignToRoot(h, d, s, src) ==
    {IF o.err # "none" THEN [h |-> h, d |-> d, ret |-> Undef, err |-> o.err]
     ELSE [h |-> o.h, d |-> [d EXCEPT ![s] = o.ret[2]], ret |-> ThisOf(s), err |-> "none"]
     : o \in {ObjectAssign(h, Ref(d[s]), src)}}

\* assign(other, path)
ConfigAssign(h, d, s, other, path) ==
    IF TypeOfOther(other) # "object"
    THEN {[h |-> h, d |-> d, ret |-> Undef, err |-> "InvalidArgument"]}
    ELSE IF other.t = "prim"
    THEN {[h |-> h, d |-> d, ret |-> Undef, err |-> "TypeError"]}
    ELSE LET src == UnwrapConfig(d, UnwrapDefault(other)) IN
         IF HasPath(path)
         THEN UNION {IF o.err # "none"
                     THEN {[h |-> h, d |-> d, ret |-> Undef, err |-> o.err]}
                     ELSE AssignToRoot(o.h, d, s, src)
                     : o \in AssignAtPath(h, Ref(d[s]), path, src)}
         ELSE AssignToRoot(h, d, s, src)

(***************************************************************************)
(* The inputs of the calls.                                                *)
(***************************************************************************)
KeyA == <<"a">>
KeyB == <<"b">>

\* the paths written: 'a', 'a.b', ['a', 'b'] and 'a.0'; 'b' is read as well
WritePaths ==
    {StringPath(<<"a">>), StringPath(<<"a", ".", "b">>),
     IterablePath(<<(<<"a">>), (<<"b">>)>>), StringPath(<<"a", ".", "0">>)}

Paths == WritePaths \cup {StringPath(<<"b">>)}

\* the values set writes, and the values push and setIfNotDefined are given
Values == {Undef, Null, Num(0), Num(1), EmptyStr}

FewValues == {Undef, Num(0), Num(1)}

Defaults == {Undef, Num(1)}

Prim(v) == [t |-> "prim", v |-> v, props |-> NoProps, store |-> ""]
Lit(props) == [t |-> "lit", v |-> Undef, props |-> props, store |-> ""]

\* string, number, boolean, undefined, null and function arguments
PrimOthers == {Prim(v) : v \in {Undef, Null, Num(1), EmptyStr, Bool(TRUE), Fn}}

\* {a: 1}, {b: 1}, {b: undefined}, {default: 1}, {default: 0}, {default: {b: 1}},
\* a Config, {default: a Config}
ObjectOthers ==
    {Lit([k \in {KeyA} |-> Num(1)]), Lit([k \in {KeyB} |-> Num(1)]),
     Lit([k \in {KeyB} |-> Undef]),
     Lit([k \in {DefaultKey} |-> Num(1)]), Lit([k \in {DefaultKey} |-> Num(0)]),
     [t |-> "moduleLit", v |-> Undef, props |-> [k \in {KeyB} |-> Num(1)], store |-> ""],
     [t |-> "config", v |-> Undef, props |-> NoProps, store |-> "A"],
     [t |-> "moduleConfig", v |-> Undef, props |-> NoProps, store |-> "A"]}

Others == PrimOthers \cup ObjectOthers

AssignPaths == {NoPath, StringPath(<<>>), StringPath(<<"a">>), StringPath(<<"a", ".", "b">>)}

NoOther == Prim(Undef)

(***************************************************************************)
(* The state: the heap, the root each Config holds (this._data), the       *)
(* object the last toObject returned to the caller (0 when none), and the  *)
(* last call with its arguments and its outcome.                           *)
(***************************************************************************)
\* a call: the method, the Config it is called on, its arguments, the value
\* returned and the error thrown, and the value that was at the path before
PreOf(s, path) == IF path.kind = "none" THEN Undef ELSE UtilsGet(heap, Ref(data[s]), path, Undef)

Call(op, s, path, value, nargs, other, ret, err) ==
    [op |-> op, store |-> s, path |-> path, value |-> value, nargs |-> nargs,
     other |-> other, ret |-> ret, err |-> err, pre |-> PreOf(s, path)]

\* no call is in progress
Idle == Call("idle", "A", NoPath, Undef, 0, NoOther, Undef, "none")

Roots(d, c, ret) ==
    {d[s] : s \in Stores} \cup (IF c = 0 THEN {} ELSE {c})
        \cup (IF IsRef(ret) THEN {ret[2]} ELSE {})

Finish(h, d, c, rec, cost) ==
    /\ heap' = IF h = heap THEN heap ELSE Collect(h, Roots(d, c, rec.ret))
    /\ data' = d
    /\ copy' = c
    /\ call' = rec
    /\ nOps' = nOps + cost

\* a = new Config(); b = new Config(a)
Init ==
    /\ heap = [a \in Addr |-> IF a = 1 THEN EmptyObject ELSE FreeObj]
    /\ data = [s \in Stores |-> 1]
    /\ copy = 0
    /\ call = Idle
    /\ nOps = 0

Get ==
    /\ call.op = "idle"
    /\ \E s \in Stores, p \in Paths, n \in {1, 2}, dv \in Defaults :
        \E o \in {ConfigGet(heap, Ref(data[s]), p, IF n = 1 THEN Undef ELSE dv)} :
        /\ n = 1 => dv = Undef
        /\ Finish(o.h, data, copy, Call("get", s, p, dv, n, NoOther, o.ret, o.err), 0)

GetOrThrow ==
    /\ call.op = "idle"
    /\ \E s \in Stores, p \in Paths, n \in {1, 2}, dv \in Defaults :
        \E o \in {ConfigGetOrThrow(heap, Ref(data[s]), p, n, IF n = 1 THEN Undef ELSE dv)} :
        /\ n = 1 => dv = Undef
        /\ Finish(o.h, data, copy, Call("getOrThrow", s, p, dv, n, NoOther, o.ret, o.err), 0)

Has ==
    /\ call.op = "idle"
    /\ \E s \in Stores, p \in Paths :
        \E o \in {ConfigHas(heap, Ref(data[s]), p)} :
        Finish(o.h, data, copy, Call("has", s, p, Undef, 1, NoOther, o.ret, o.err), 0)

Set ==
    /\ call.op = "idle"
    /\ nOps < MaxOps
    /\ \E s \in Stores, p \in WritePaths, v \in Values :
        \E o \in ConfigSet(heap, Ref(data[s]), p, v) :
            /\ o.err # "oom"
            /\ Finish(o.h, data, copy, Call("set", s, p, v, 2, NoOther, o.ret, o.err), 1)

SetIfNotDefined ==
    /\ call.op = "idle"
    /\ nOps < MaxOps
    /\ \E s \in Stores, p \in WritePaths, v \in FewValues :
        \E o \in ConfigSetIfNotDefined(heap, Ref(data[s]), p, v) :
            /\ o.err # "oom"
            /\ Finish(o.h, data, copy,
                      Call("setIfNotDefined", s, p, v, 2, NoOther, o.ret, o.err), 1)

Push ==
    /\ call.op = "idle"
    /\ nOps < MaxOps
    /\ \E s \in Stores, p \in WritePaths, v \in FewValues :
        \E o \in ConfigPush(heap, Ref(data[s]), p, v) :
            /\ o.err # "oom"
            /\ Finish(o.h, data, copy, Call("push", s, p, v, 2, NoOther, o.ret, o.err), 1)

Update ==
    /\ call.op = "idle"
    /\ nOps < MaxOps
    /\ \E s \in Stores, p \in {q \in WritePaths : q.kind = "string"}, cb \in Callbacks :
        \E o \in ConfigUpdate(heap, Ref(data[s]), p, cb) :
            /\ o.err # "oom"
            /\ Finish(o.h, data, copy, Call("update", s, p, Undef, 2, NoOther, o.ret, o.err), 1)

Assign ==
    /\ call.op = "idle"
    /\ nOps < MaxOps
    /\ \E s \in Stores, other \in Others, p \in AssignPaths :
        \E o \in ConfigAssign(heap, data, s, other, p) :
            /\ o.err # "oom"
            /\ Finish(o.h, o.d, copy,
                      Call("assign", s, p, Undef, IF p = NoPath THEN 1 ELSE 2, other,
                           o.ret, o.err), 1)

ToObject ==
    /\ call.op = "idle"
    /\ nOps < MaxOps
    /\ \E s \in Stores :
        \E o \in {ConfigToObject(heap, Ref(data[s]))} :
        /\ o.err # "oom"
        /\ Finish(o.h, data, o.ret[2], Call("toObject", s, NoPath, Undef, 0, NoOther, o.ret, o.err), 1)

\* the caller writes a top-level key of the object toObject returned
WriteCopy ==
    /\ call.op = "idle"
    /\ nOps < MaxOps
    /\ copy # 0
    /\ \E k \in {KeyA, KeyB}, v \in {Num(0), Num(1)} :
        Finish(WriteProp(heap, copy, k, v), data, copy,
               Call("writeCopy", "A", NoPath, v, 2, Lit([x \in {k} |-> v]), v, "none"), 1)

\* the call is over: the caller has taken its result
Return ==
    /\ call.op # "idle"
    /\ heap' = Collect(heap, Roots(data, copy, Undef))
    /\ call' = Idle
    /\ UNCHANGED <<data, copy, nOps>>

Next ==
    \/ Return
    \/ Get
    \/ GetOrThrow
    \/ Has
    \/ Set
    \/ SetIfNotDefined
    \/ Push
    \/ Update
    \/ Assign
    \/ ToObject
    \/ WriteCopy

Spec == Init /\ [][Next]_vars

(***************************************************************************)
(* Properties of the Config methods.                                      *)
(***************************************************************************)
RootOf(s) == Ref(data[s])

\* get(path) on Config s in the current state
GetNow(s, path) == ConfigGet(heap, RootOf(s), path, Undef).ret

Falsy == {Undef, Null, Num(0), EmptyStr, Bool(FALSE)}

\* C1: after set(P, V) returns, get(P) on the same Config returns exactly V,
\* and set itself returned V.
C1_SetThenGet ==
    (call.op = "set" /\ call.err = "none") =>
        /\ GetNow(call.store, call.path) = call.value
        /\ call.ret = call.value

\* a set through a collection path that created the intermediate mapping
C1_Witness ==
    /\ call.op = "set" /\ call.err = "none"
    /\ call.path = IterablePath(<<KeyA, KeyB>>)
    /\ call.value = Null
    /\ GetNow(call.store, StringPath(<<"a", ".", "b">>)) = Null

\* C3: getOrThrow(P) fails with MissingRequiredValue when the value at P is
\* undefined and no default argument was passed; getOrThrow(P, D) returns D
\* without failing for every D, undefined included; when the value at P is
\* defined getOrThrow never fails and returns it.
C3_GetOrThrow ==
    call.op = "getOrThrow" =>
        /\ (call.pre = Undef /\ call.nargs = 1) => call.err = "MissingRequiredValue"
        /\ (call.pre = Undef /\ call.nargs = 2) => (call.err = "none" /\ call.ret = call.value)
        /\ call.pre # Undef => (call.err = "none" /\ call.ret = call.pre)

\* getOrThrow(P, undefined) on a missing path has returned undefined
C3_Witness ==
    /\ call.op = "getOrThrow" /\ call.nargs = 2 /\ call.value = Undef
    /\ call.pre = Undef /\ call.err = "none" /\ call.ret = Undef

\* C5: a Config B constructed from a Config A shares A's root: after any
\* sequence of set, push, update, setIfNotDefined and assign through either,
\* get(P) returns the same value from A and from B for every path P.
C5_SharedRoot ==
    /\ data["A"] = data["B"]
    /\ call.op = "idle" =>
          \A p \in Paths, dv \in Defaults :
              ConfigGet(heap, RootOf("A"), p, dv).ret = ConfigGet(heap, RootOf("B"), p, dv).ret
    /\ call.op \in {"set", "push", "update", "setIfNotDefined", "assign"} =>
          GetNow("A", call.path) = GetNow("B", call.path)

\* an assign through B whose merge into the root is read through A
C5_Witness ==
    /\ call.op = "assign" /\ call.store = "B" /\ call.err = "none"
    /\ call.other = Lit([k \in {KeyB} |-> Num(1)])
    /\ GetNow("A", StringPath(KeyB)) = Num(1)

\* C7: get(P) returns undefined and get(P, D) returns D when there is no
\* value at P, and get never fails, also on an intermediate segment that is
\* missing or cannot be traversed.
C7_GetMissing ==
    call.op = "get" =>
        /\ call.err = "none"
        /\ Walk(heap, RootOf(call.store), Resolve(call.path)) = Undef =>
              call.ret = (IF call.nargs = 1 THEN Undef ELSE call.value)
        /\ nOps = 0 => call.ret = (IF call.nargs = 1 THEN Undef ELSE call.value)

\* get('a.b', 1) returned the default where 'a' holds a scalar
C7_Witness ==
    /\ call.op = "get" /\ call.nargs = 2 /\ call.value = Num(1)
    /\ call.path = StringPath(<<"a", ".", "b">>)
    /\ GetNow(call.store, StringPath(KeyA)) = Num(0)
    /\ call.ret = Num(1)

Under(path, k) == IterablePath(<<Join(path.parts), k>>)

HasDefaultExport(other) ==
    DefaultKey \in DOMAIN other.props /\ Truthy(other.props[DefaultKey])

C4_Original ==
    (call.op = "setIfNotDefined" /\ call.err = "none" /\ call.pre = Undef) =>
        /\ call.ret = call.value
        /\ GetNow(call.store, call.path) = call.value
        /\ \A v2 \in Values :
              \A o \in ConfigSetIfNotDefined(heap, RootOf(call.store), call.path, v2) :
                  o.err = "none" /\ o.h = heap /\ o.ret = call.value

\* C4 amended: setIfNotDefined never overwrites a defined value; if get(P) is
\* undefined, setIfNotDefined(P, V1) writes V1 and returns V1, and for V1 other
\* than undefined any later setIfNotDefined(P, V2) returns V1 and leaves the
\* store unchanged.
C4_NeverOverwrites ==
    /\ call.op = "setIfNotDefined" =>
        /\ (call.err = "none" /\ call.pre = Undef) =>
              /\ call.ret = call.value
              /\ GetNow(call.store, call.path) = call.value
              /\ call.value # Undef =>
                    \A v2 \in Values :
                        \A o \in ConfigSetIfNotDefined(heap, RootOf(call.store), call.path, v2) :
                            o.err = "none" /\ o.h = heap /\ o.ret = call.value
        /\ call.pre # Undef =>
              /\ call.err = "none"
              /\ call.ret = call.pre
              /\ GetNow(call.store, call.path) = call.pre
    /\ call.op = "idle" =>
          \A s \in Stores, p \in Paths, v \in Values :
              GetNow(s, p) # Undef =>
                  \A o \in ConfigSetIfNotDefined(heap, RootOf(s), p, v) :
                      o.err = "none" /\ o.h = heap /\ o.ret = GetNow(s, p)

\* setIfNotDefined('a', 1) found 0 at 'a', returned it and left it there
C4_Witness ==
    /\ call.op = "setIfNotDefined" /\ call.path = StringPath(KeyA)
    /\ call.value = Num(1) /\ call.pre = Num(0)
    /\ call.ret = Num(0) /\ GetNow(call.store, call.path) = Num(0)

\* C6: a push onto a path with no value creates the sequence [x]; each later
\* push appends at the end of the same sequence, so x1..xn are kept in call
\* order; each push returns the value it appended.
C6_PushOrder ==
    (call.op = "push" /\ call.err = "none") =>
        LET now == GetNow(call.store, call.path) IN
        /\ call.ret = call.value
        /\ IsRef(now)
        /\ heap[now[2]].kind = "array"
        /\ call.pre = Undef => heap[now[2]].elems = <<call.value>>
        /\ call.pre # Undef =>
              /\ now = call.pre
              /\ heap[now[2]].elems[Len(heap[now[2]].elems)] = call.value
        /\ \A x \in Values :
              \A o \in ConfigPush(heap, RootOf(call.store), call.path, x) :
                  /\ o.err = "none"
                  /\ o.ret = x
                  /\ UtilsGet(o.h, RootOf(call.store), call.path, Undef) = now
                  /\ o.h[now[2]].elems = Append(heap[now[2]].elems, x)

\* push('a', 0) then push('a', 1) left [0, 1] at 'a'
C6_Witness ==
    /\ call.op = "push" /\ call.err = "none" /\ call.path = StringPath(KeyA)
    /\ IsRef(call.pre)
    /\ call.ret = Num(1)
    /\ heap[call.pre[2]].elems = <<Num(0), Num(1)>>

\* C8 as stated: assign(other, path?) with a string, number, boolean, undefined,
\* null or function `other` fails with InvalidArgument, before any change of
\* the store.
C8_NonMappingRejected ==
    [][(call'.op = "assign" /\ call'.other.t = "prim") =>
          (call'.err = "InvalidArgument" /\ heap' = heap /\ data' = data)]_vars

\* C10: toObject returns a fresh mapping with the top-level keys and values of
\* the root; afterwards a set with a one-segment path or an assign on the
\* Config does not change the copy and a write of a top-level key of the copy
\* does not change the root, while a set or push inside a nested mapping or
\* sequence the two share is seen through both.
C10_ShallowCopy ==
    /\ call.op = "toObject" =>
          /\ call.err = "none"
          /\ call.ret = Ref(copy)
          /\ copy # data[call.store]
          /\ heap[copy].kind = "object"
          /\ heap[copy].props = heap[data[call.store]].props
    /\ (copy # 0 /\ call.op = "idle") =>
          \A s \in Stores :
              /\ \A p \in {StringPath(KeyA), StringPath(KeyB)}, v \in Values :
                    \A o \in ConfigSet(heap, RootOf(s), p, v) : o.h[copy] = heap[copy]
              /\ \A other \in ObjectOthers, p \in AssignPaths :
                    \A o \in ConfigAssign(heap, data, s, other, p) : o.h[copy] = heap[copy]
              /\ \A k \in {KeyA, KeyB}, v \in Values :
                    WriteProp(heap, copy, k, v)[data[s]] = heap[data[s]]
              /\ \A k \in {KeyA, KeyB} :
                    LET shared == ReadProp(heap, copy, k) IN
                    (IsRef(shared) /\ ReadProp(heap, data[s], k) = shared) =>
                        /\ \A v \in Values :
                              \A o \in ConfigSet(heap, RootOf(s), Under(StringPath(k), KeyB), v) :
                                  o.err = "none" =>
                                      /\ Walk(o.h, Ref(copy), <<k, KeyB>>) = v
                                      /\ Walk(o.h, RootOf(s), <<k, KeyB>>) = v
                        /\ heap[shared[2]].kind = "array" =>
                              \A v \in Values :
                                  \A o \in ConfigPush(heap, RootOf(s), StringPath(k), v) :
                                      /\ Walk(o.h, Ref(copy), <<k>>) = shared
                                      /\ o.h[shared[2]].elems = Append(heap[shared[2]].elems, v)

\* toObject returned a copy that shares the mapping at 'a' with the root
C10_Witness ==
    /\ call.op = "toObject" /\ call.err = "none"
    /\ IsRef(ReadProp(heap, copy, KeyA))
    /\ ReadProp(heap, copy, KeyA) = ReadProp(heap, data[call.store], KeyA)
    /\ heap[ReadProp(heap, copy, KeyA)[2]].kind = "object"

====
